---- MODULE Spec2Model ----
(***************************************************************************)
(* Model of veroviz/generateNodes.py: one call of generateNodes() and the  *)
(* four samplers it dispatches to.                                         *)
(*                                                                         *)
(* Coordinates are pairs <<lat, lon>> of integers (quarter units), so that *)
(* the barycentric formula of _genNodesUniformTriangle is exact for the    *)
(* random values the model draws.  Python lists are sequences; list index  *)
(* k of the source is index k+1 here.                                      *)
(***************************************************************************)
EXTENDS Integers, Sequences, FiniteSets, TLC

\* ------------------------------------------------------------------ bounds
MaxNodes == 2
MaxRounds == 2
MaxRedraws == 2
TestDistToRoad == 2

\* ------------------------------------------------------------------ inputs
SupportedDistribs == {"uniformBB", "normal", "normalBB", "unifRoadBasedBB"}

DistribTags == SupportedDistribs \cup {"poisson"}

DistribKeys == {"boundingRegion", "center", "stdDev", "distToRoad"}

Square == << <<0, 0>>, <<0, 4>>, <<4, 4>>, <<4, 0>> >>

\* a region whose vertices all lie on one line: no area
Flat == << <<0, 0>>, <<0, 2>>, <<0, 4>> >>

Regions == {Square, Flat}

ArgValue(key, region) ==
    CASE key = "boundingRegion" -> region
      [] key = "center" -> <<2, 2>>
      [] key = "stdDev" -> 4
      [] key = "distToRoad" -> TestDistToRoad

ArgBags == { [k \in ks |-> ArgValue(k, region)] : ks \in SUBSET DistribKeys, region \in Regions }

dataProvider == "OSRM-online"

dataProviderArgs == "providerArgs"

None == "None"

\* line 247 passes dataProviderArgs as the fifth positional argument, which
\* line 401 names APIkey; databaseName is not passed and keeps its default
APIkey == dataProviderArgs

databaseName == None

\* road points the snap provider may answer with
RoadLocs == { <<0, 0>>, <<1, 1>> }

\* values of sqrt(rndR1) and of rndR2, in halves
SqrtR1Halves == {0, 1}

R2Halves == {1}

Bearings == {0, 90, 180, 270}

NormalFactors == {-1, 0, 1}

\* ---------------------------------------------------------------- geometry
Abs(x) == IF x < 0 THEN 0 - x ELSE x

Cross(o, a, b) == (a[1] - o[1]) * (b[2] - o[2]) - (a[2] - o[2]) * (b[1] - o[1])

areaOfTriangle(a, b, c) == Abs(Cross(a, b, c)) \div 2

\* squared planar distance: geoDistance2D(a, b) <= d  is compared on squares
DistSq(a, b) == (a[1] - b[1]) * (a[1] - b[1]) + (a[2] - b[2]) * (a[2] - b[2])

geoDistance2DLeq(a, b, d) == d >= 0 /\ DistSq(a, b) <= d * d

geoPointInDistance2D(center, bearing, dist) ==
    CASE bearing = 0 -> <<center[1] + dist, center[2]>>
      [] bearing = 90 -> <<center[1], center[2] + dist>>
      [] bearing = 180 -> <<center[1] - dist, center[2]>>
      [] bearing = 270 -> <<center[1], center[2] - dist>>

\* ray casting towards increasing lon; edge k joins poly[k] and its successor
EdgeCrossed(p, a, b) ==
    /\ (a[1] > p[1]) # (b[1] > p[1])
    /\ IF b[1] > a[1]
         THEN (p[2] - a[2]) * (b[1] - a[1]) < (p[1] - a[1]) * (b[2] - a[2])
         ELSE (p[2] - a[2]) * (b[1] - a[1]) > (p[1] - a[1]) * (b[2] - a[2])

geoIsPointInPoly(p, poly) ==
    LET n == Len(poly)
        crossed == { k \in 1..n : EdgeCrossed(p, poly[k], poly[(k % n) + 1]) }
    IN  Cardinality(crossed) % 2 = 1

\* ------------------------------------------------------------ triangulation
RemoveAt(s, k) == [ j \in 1..(Len(s) - 1) |-> IF j < k THEN s[j] ELSE s[j + 1] ]

SignedArea2(poly) ==
    LET n == Len(poly)
        term[k \in 0..n] ==
            IF k = 0 THEN 0
            ELSE term[k - 1] + poly[k][1] * poly[(k % n) + 1][2]
                             - poly[(k % n) + 1][1] * poly[k][2]
    IN  term[n]

InTriangle(p, a, b, c) ==
    LET d1 == Cross(a, b, p)
        d2 == Cross(b, c, p)
        d3 == Cross(c, a, p)
    IN  ~ ((d1 < 0 \/ d2 < 0 \/ d3 < 0) /\ (d1 > 0 \/ d2 > 0 \/ d3 > 0))

IsEar(poly, k) ==
    LET n == Len(poly)
        prev == poly[((k + n - 2) % n) + 1]
        cur == poly[k]
        next == poly[(k % n) + 1]
        turn == Cross(prev, cur, next)
    IN  /\ IF SignedArea2(poly) > 0 THEN turn > 0 ELSE turn < 0
        /\ \A j \in 1..n : poly[j] \in {prev, cur, next} \/ ~ InTriangle(poly[j], prev, cur, next)

RECURSIVE earclip(_)
earclip(poly) ==
    LET n == Len(poly)
        ears == { k \in 1..n : IsEar(poly, k) }
    IN  IF n < 3 \/ ears = {} THEN << >>
        ELSE LET k == CHOOSE e \in ears : \A f \in ears : e <= f
                 tri == << poly[((k + n - 2) % n) + 1], poly[k], poly[(k % n) + 1] >>
             IN  IF n = 3 THEN << tri >> ELSE << tri >> \o earclip(RemoveAt(poly, k))

\* tripy.earclip of each region of the model, computed once
earclipTable == { << r, earclip(r) >> : r \in Regions }

earclipOf(boundingRegion) == (CHOOSE e \in earclipTable : e[1] = boundingRegion)[2]

TotalArea(lstArea) ==
    LET sum[k \in 0..Len(lstArea)] == IF k = 0 THEN 0 ELSE sum[k - 1] + lstArea[k]
    IN  sum[Len(lstArea)]

\* randomPick has nothing to pick from: the total area is zero
randomPickFails(lstArea) == TotalArea(lstArea) = 0

\* indices randomPick can answer: those whose area interval is not empty
randomPick(lstArea) == { k \in 1..Len(lstArea) : lstArea[k] > 0 }

\* one point of _genNodesUniformTriangle(1, triangle), sqrt(rndR1) = s/2, rndR2 = r/2
UniformTrianglePoint(triangle, s, r) ==
    << ((2 - s) * 2 * triangle[1][1] + s * (2 - r) * triangle[2][1] + s * r * triangle[3][1]) \div 4,
       ((2 - s) * 2 * triangle[1][2] + s * (2 - r) * triangle[2][2] + s * r * triangle[3][2]) \div 4 >>

\* ------------------------------------------------------------------- state
VARIABLES
    nodeDistrib,      \* generateNodes argument
    nodeDistribArgs,  \* generateNodes argument: the dictionary, by its keys
    numNodes,         \* generateNodes argument
    valFlag,          \* answer of valGenerateNodes
    pc,               \* position of the call
    outcome,          \* how the call ended
    locsBound,        \* generateNodes: local `locs` has been assigned
    gLocs,            \* generateNodes: value of local `locs`
    samplerLog,       \* samplers entered by generateNodes, in order
    createLog,        \* locs arguments received by privCreateNodesFromLocs
    rngDraws,         \* number of np.random / randomPick draws so far
    locs,             \* sampler local `locs`
    i,                \* sampler loop index
    newLoc,           \* _genNodesNormalBounded local
    redraws,          \* rejected draws of _genNodesNormalBounded so far
    newLocs,          \* _genNodesRoadBased local
    snapLocs,         \* _genNodesRoadBased local
    rounds,           \* iterations of the while loop of _genNodesRoadBased begun
    snapLog,          \* calls received by privGetSnapLocBatch, in order (without the coordinates)
    snapArgLocs,      \* coordinates received by the latest privGetSnapLocBatch call
    accLog,           \* for each element of locs: the candidate, its snap result, round and index
    failMark,         \* <<adapter calls, draws>> when the adapter failed
    ubCaller,         \* who called _genNodesUniformBounded
    ubNum,            \* _genNodesUniformBounded argument numNodes
    ubLocs,           \* _genNodesUniformBounded local `locs`
    ubI,              \* _genNodesUniformBounded loop index
    lstTriangle,      \* _genNodesUniformBounded local
    lstArea,          \* _genNodesUniformBounded local
    index,            \* _genNodesUniformBounded local
    ubPicks,          \* randomPick calls of the current _genNodesUniformBounded call
    ubDraws,          \* _genNodesUniformTriangle calls of the current _genNodesUniformBounded call
    triLog            \* number of tripy.earclip calls so far

inputVars == <<nodeDistrib, nodeDistribArgs, numNodes, valFlag>>

gnVars == <<locsBound, gLocs, samplerLog, createLog>>

nbVars == <<newLoc, redraws>>

rbVars == <<newLocs, snapLocs, rounds, snapLog, snapArgLocs, accLog, failMark>>

ubVars == <<ubCaller, ubNum, ubLocs, ubI, lstTriangle, lstArea, index, ubPicks, ubDraws, triLog>>

vars == <<inputVars, pc, outcome, gnVars, rngDraws, locs, i, nbVars, rbVars, ubVars>>

\* the logs and counters below record the rounds up to MaxRounds; the rounds
\* after those run the same code unrecorded
Count(n, k) == IF rounds > MaxRounds THEN n ELSE n + k

Log(seq, e) == IF rounds > MaxRounds THEN seq ELSE Append(seq, e)

Init ==
    /\ nodeDistrib \in DistribTags
    /\ nodeDistribArgs \in ArgBags
    /\ numNodes \in 0..MaxNodes
    /\ valFlag \in BOOLEAN
    /\ pc = "validate"
    /\ outcome = "running"
    /\ locsBound = FALSE
    /\ gLocs = << >>
    /\ samplerLog = << >>
    /\ createLog = << >>
    /\ rngDraws = 0
    /\ locs = << >>
    /\ i = 0
    /\ newLoc = <<0, 0>>
    /\ redraws = 0
    /\ newLocs = << >>
    /\ snapLocs = << >>
    /\ rounds = 0
    /\ snapLog = << >>
    /\ snapArgLocs = << >>
    /\ accLog = << >>
    /\ failMark = << >>
    /\ ubCaller = "nobody"
    /\ ubNum = 0
    /\ ubLocs = << >>
    /\ ubI = 0
    /\ lstTriangle = << >>
    /\ lstArea = << >>
    /\ index = 0
    /\ ubPicks = 0
    /\ ubDraws = 0
    /\ triLog = 0

\* ----------------------------------------------------------- generateNodes
\* lines 218-221 without the return of line 221
GN_ValidateFail_NoReturn ==
    /\ pc = "validate"
    /\ ~ valFlag
    /\ pc' = "dispatch"
    /\ UNCHANGED <<inputVars, outcome, gnVars, rngDraws, locs, i, nbVars, rbVars, ubVars>>

\* lines 218-221: validation failed, the message is printed, None is returned
GN_ValidateFail ==
    /\ pc = "validate"
    /\ ~ valFlag
    /\ pc' = "done"
    /\ outcome' = "invalid"
    /\ UNCHANGED <<inputVars, gnVars, rngDraws, locs, i, nbVars, rbVars, ubVars>>

\* lines 218-223: validation passed
GN_ValidatePass ==
    /\ pc = "validate"
    /\ valFlag
    /\ pc' = "dispatch"
    /\ UNCHANGED <<inputVars, outcome, gnVars, rngDraws, locs, i, nbVars, rbVars, ubVars>>

HasKeys(args, keys) == keys \subseteq DOMAIN args

\* the chain of lines 226-247 with "normal" never looking for a boundary
Dispatch_NormalUnbounded(tag, args) ==
    CASE tag = "uniformBB" ->
            IF HasKeys(args, {"boundingRegion"}) THEN "_genNodesUniformBounded" ELSE "KeyError"
      [] tag = "normal" ->
            IF HasKeys(args, {"center", "stdDev"}) THEN "_genNodesNormal" ELSE "KeyError"
      [] tag = "normalBB" ->
            IF HasKeys(args, {"boundingRegion", "center", "stdDev"})
              THEN "_genNodesNormalBounded" ELSE "KeyError"
      [] tag = "unifRoadBasedBB" ->
            IF HasKeys(args, {"boundingRegion", "distToRoad"})
              THEN "_genNodesRoadBased" ELSE "KeyError"
      [] OTHER -> "fallthrough"

\* the chain of lines 226-247 with "normalBB" falling back to the unbounded
\* sampler when there is no boundary
Dispatch_BoundaryOptional(tag, args) ==
    CASE tag = "uniformBB" ->
            IF HasKeys(args, {"boundingRegion"}) THEN "_genNodesUniformBounded" ELSE "KeyError"
      [] tag \in {"normal", "normalBB"} ->
            IF "boundingRegion" \notin DOMAIN args
              THEN IF HasKeys(args, {"center", "stdDev"}) THEN "_genNodesNormal" ELSE "KeyError"
              ELSE IF HasKeys(args, {"center", "stdDev"}) THEN "_genNodesNormalBounded" ELSE "KeyError"
      [] tag = "unifRoadBasedBB" ->
            IF HasKeys(args, {"boundingRegion", "distToRoad"})
              THEN "_genNodesRoadBased" ELSE "KeyError"
      [] OTHER -> "fallthrough"

\* the if/elif chain of lines 226-247: the sampler called, a KeyError raised
\* by a dictionary lookup, or no branch taken
Dispatch(tag, args) ==
    CASE tag = "uniformBB" ->
            IF HasKeys(args, {"boundingRegion"}) THEN "_genNodesUniformBounded" ELSE "KeyError"
      [] tag = "normal" ->
            IF "boundingRegion" \notin DOMAIN args
              THEN IF HasKeys(args, {"center", "stdDev"}) THEN "_genNodesNormal" ELSE "KeyError"
              ELSE IF HasKeys(args, {"center", "stdDev"}) THEN "_genNodesNormalBounded" ELSE "KeyError"
      [] tag = "normalBB" ->
            IF HasKeys(args, {"boundingRegion", "center", "stdDev"})
              THEN "_genNodesNormalBounded" ELSE "KeyError"
      [] tag = "unifRoadBasedBB" ->
            IF HasKeys(args, {"boundingRegion", "distToRoad"})
              THEN "_genNodesRoadBased" ELSE "KeyError"
      [] OTHER -> "fallthrough"

\* a lookup nodeDistribArgs[key] of lines 227-246 raises KeyError
GN_KeyError ==
    /\ pc = "dispatch"
    /\ Dispatch(nodeDistrib, nodeDistribArgs) = "KeyError"
    /\ pc' = "done"
    /\ outcome' = "KeyError"
    /\ UNCHANGED <<inputVars, gnVars, rngDraws, locs, i, nbVars, rbVars, ubVars>>

\* line 228
GN_CallUniformBounded ==
    /\ pc = "dispatch"
    /\ Dispatch(nodeDistrib, nodeDistribArgs) = "_genNodesUniformBounded"
    /\ samplerLog' = Append(samplerLog, "_genNodesUniformBounded")
    /\ ubCaller' = "generateNodes"
    /\ ubNum' = numNodes
    /\ pc' = "ub_entry"
    /\ UNCHANGED <<inputVars, outcome, locsBound, gLocs, createLog, rngDraws, locs, i, nbVars, rbVars,
                   ubLocs, ubI, lstTriangle, lstArea, index, ubPicks, ubDraws, triLog>>

\* line 233
GN_CallNormal ==
    /\ pc = "dispatch"
    /\ Dispatch(nodeDistrib, nodeDistribArgs) = "_genNodesNormal"
    /\ samplerLog' = Append(samplerLog, "_genNodesNormal")
    /\ locs' = << >>
    /\ i' = 0
    /\ pc' = "n_loop"
    /\ UNCHANGED <<inputVars, outcome, locsBound, gLocs, createLog, rngDraws, nbVars, rbVars, ubVars>>

\* lines 238 and 243
GN_CallNormalBounded ==
    /\ pc = "dispatch"
    /\ Dispatch(nodeDistrib, nodeDistribArgs) = "_genNodesNormalBounded"
    /\ samplerLog' = Append(samplerLog, "_genNodesNormalBounded")
    /\ locs' = << >>
    /\ i' = 0
    /\ pc' = "nb_loop"
    /\ UNCHANGED <<inputVars, outcome, locsBound, gLocs, createLog, rngDraws, nbVars, rbVars, ubVars>>

\* line 247
GN_CallRoadBased ==
    /\ pc = "dispatch"
    /\ Dispatch(nodeDistrib, nodeDistribArgs) = "_genNodesRoadBased"
    /\ samplerLog' = Append(samplerLog, "_genNodesRoadBased")
    /\ locs' = << >>
    /\ pc' = "rb_loop"
    /\ UNCHANGED <<inputVars, outcome, locsBound, gLocs, createLog, rngDraws, i, nbVars, rbVars, ubVars>>

\* no branch of lines 226-247 matches: control reaches line 250, locs unassigned
GN_FallThrough ==
    /\ pc = "dispatch"
    /\ Dispatch(nodeDistrib, nodeDistribArgs) = "fallthrough"
    /\ pc' = "create"
    /\ UNCHANGED <<inputVars, outcome, gnVars, rngDraws, locs, i, nbVars, rbVars, ubVars>>

\* line 250: evaluating the argument `locs` raises UnboundLocalError
GN_LocsUnbound ==
    /\ pc = "create"
    /\ ~ locsBound
    /\ pc' = "done"
    /\ outcome' = "UnboundLocalError"
    /\ UNCHANGED <<inputVars, gnVars, rngDraws, locs, i, nbVars, rbVars, ubVars>>

\* the locs argument line 250 passes to privCreateNodesFromLocs
CreateArg(l) == l

\* lines 250-251
GN_CreateNodes ==
    /\ pc = "create"
    /\ locsBound
    /\ createLog' = Append(createLog, CreateArg(gLocs))
    /\ pc' = "done"
    /\ outcome' = "nodes"
    /\ UNCHANGED <<inputVars, locsBound, gLocs, samplerLog, rngDraws, locs, i, nbVars, rbVars, ubVars>>

\* --------------------------------------------------- _genNodesUniformBounded
\* lines 275-278: lstArea from lstTriangle
TriangleAreas(tris) ==
    [ k \in 1..Len(tris) |-> areaOfTriangle(tris[k][1], tris[k][2], tris[k][3]) ]

\* lines 275-281
UB_Triangulate ==
    /\ pc = "ub_entry"
    /\ lstTriangle' = earclipOf(nodeDistribArgs["boundingRegion"])
    /\ lstArea' = TriangleAreas(lstTriangle')
    /\ triLog' = Count(triLog, 1)
    /\ ubLocs' = << >>
    /\ ubI' = 0
    /\ ubPicks' = 0
    /\ ubDraws' = 0
    /\ pc' = "ub_loop"
    /\ UNCHANGED <<inputVars, outcome, gnVars, rngDraws, locs, i, nbVars, rbVars, ubCaller, ubNum, index>>

\* lines 282-283
UB_Pick ==
    /\ pc = "ub_loop"
    /\ ubI < ubNum
    /\ \E k \in randomPick(lstArea) : index' = k
    /\ rngDraws' = Count(rngDraws, 1)
    /\ ubPicks' = ubPicks + 1
    /\ pc' = "ub_draw"
    /\ UNCHANGED <<inputVars, outcome, gnVars, locs, i, nbVars, rbVars,
                   ubCaller, ubNum, ubLocs, ubI, lstTriangle, lstArea, ubDraws, triLog>>

\* line 283: randomPick has no area to pick from and fails; the exception
\* leaves every caller (none has a handler)
UB_PickFails ==
    /\ pc = "ub_loop"
    /\ ubI < ubNum
    /\ randomPickFails(lstArea)
    /\ outcome' = "ConfigurationError"
    /\ pc' = "done"
    /\ UNCHANGED <<inputVars, gnVars, rngDraws, locs, i, nbVars, rbVars, ubVars>>

\* lines 319-326: _genNodesUniformTriangle(numNodes, triangle) for the drawn values
_genNodesUniformTriangle(n, triangle, s, r) ==
    [ k \in 1..n |-> UniformTrianglePoint(triangle, s, r) ]

\* line 284: newLoc
UB_NewLoc_AllAtOnce(n, triangle, s, r) == _genNodesUniformTriangle(n, triangle, s, r)

UB_NewLoc(n, triangle, s, r) == _genNodesUniformTriangle(1, triangle, s, r)

\* a loop body that triangulates again before each draw
UB_Draw_Retriangulate ==
    /\ pc = "ub_draw"
    /\ lstTriangle' = earclipOf(nodeDistribArgs["boundingRegion"])
    /\ lstArea' = TriangleAreas(lstTriangle')
    /\ triLog' = triLog + 1
    /\ \E s \in SqrtR1Halves, r \in R2Halves :
          ubLocs' = ubLocs \o UB_NewLoc(ubNum, lstTriangle[index], s, r)
    /\ rngDraws' = Count(rngDraws, 2)
    /\ ubDraws' = ubDraws + 1
    /\ ubI' = ubI + 1
    /\ pc' = "ub_loop"
    /\ UNCHANGED <<inputVars, outcome, gnVars, locs, i, nbVars, rbVars,
                   ubCaller, ubNum, index, ubPicks>>

\* lines 284-285
UB_Draw ==
    /\ pc = "ub_draw"
    /\ \E s \in SqrtR1Halves, r \in R2Halves :
          ubLocs' = ubLocs \o UB_NewLoc(ubNum, lstTriangle[index], s, r)
    /\ rngDraws' = Count(rngDraws, 2)
    /\ ubDraws' = ubDraws + 1
    /\ ubI' = ubI + 1
    /\ pc' = "ub_loop"
    /\ UNCHANGED <<inputVars, outcome, gnVars, locs, i, nbVars, rbVars,
                   ubCaller, ubNum, lstTriangle, lstArea, index, ubPicks, triLog>>

\* line 287, returning to line 228
UB_ReturnToGenerateNodes ==
    /\ pc = "ub_loop"
    /\ ubI >= ubNum
    /\ ubCaller = "generateNodes"
    /\ gLocs' = ubLocs
    /\ locsBound' = TRUE
    /\ pc' = "create"
    /\ UNCHANGED <<inputVars, outcome, samplerLog, createLog, rngDraws, locs, i, nbVars, rbVars, ubVars>>

\* line 287, returning to line 435
UB_ReturnToRoadBased ==
    /\ pc = "ub_loop"
    /\ ubI >= ubNum
    /\ ubCaller = "_genNodesRoadBased"
    /\ newLocs' = ubLocs
    /\ pc' = "rb_snap"
    /\ UNCHANGED <<inputVars, outcome, gnVars, rngDraws, locs, i, nbVars,
                   snapLocs, rounds, snapLog, snapArgLocs, accLog, failMark, ubVars>>

\* ----------------------------------------------------------- _genNodesNormal
\* lines 394-396 (and 357-359, 361-363): one (bearing, offset) draw
NormalPoint(bearing, factor) ==
    geoPointInDistance2D(nodeDistribArgs["center"], bearing, factor * nodeDistribArgs["stdDev"])

\* lines 393-397
N_Draw ==
    /\ pc = "n_loop"
    /\ i < numNodes
    /\ \E b \in Bearings, f \in NormalFactors : locs' = Append(locs, NormalPoint(b, f))
    /\ rngDraws' = rngDraws + 2
    /\ i' = i + 1
    /\ UNCHANGED <<inputVars, pc, outcome, gnVars, nbVars, rbVars, ubVars>>

\* line 399, returning to line 233
N_Return ==
    /\ pc = "n_loop"
    /\ i >= numNodes
    /\ gLocs' = locs
    /\ locsBound' = TRUE
    /\ pc' = "create"
    /\ UNCHANGED <<inputVars, outcome, samplerLog, createLog, rngDraws, locs, i, nbVars, rbVars, ubVars>>

\* ---------------------------------------------------- _genNodesNormalBounded
\* line 360: the condition of the while loop
NB_LoopCond_Inverted(p, boundingRegion) == geoIsPointInPoly(p, boundingRegion)

NB_LoopCond(p, boundingRegion) == ~ geoIsPointInPoly(p, boundingRegion)

\* lines 356-359
NB_Draw ==
    /\ pc = "nb_loop"
    /\ i < numNodes
    /\ \E b \in Bearings, f \in NormalFactors : newLoc' = NormalPoint(b, f)
    /\ rngDraws' = rngDraws + 2
    /\ pc' = "nb_test"
    /\ UNCHANGED <<inputVars, outcome, gnVars, locs, i, redraws, rbVars, ubVars>>

\* lines 360-363
NB_Redraw ==
    /\ pc = "nb_test"
    /\ NB_LoopCond(newLoc, nodeDistribArgs["boundingRegion"])
    /\ redraws < MaxRedraws
    /\ \E b \in Bearings, f \in NormalFactors : newLoc' = NormalPoint(b, f)
    /\ rngDraws' = rngDraws + 2
    /\ redraws' = redraws + 1
    /\ UNCHANGED <<inputVars, pc, outcome, gnVars, locs, i, rbVars, ubVars>>

\* lines 360-363 with a cap on the redraws: past it the points found so far are returned
NB_RedrawLate_GiveUp ==
    /\ pc = "nb_test"
    /\ NB_LoopCond(newLoc, nodeDistribArgs["boundingRegion"])
    /\ redraws >= MaxRedraws
    /\ gLocs' = locs
    /\ locsBound' = TRUE
    /\ pc' = "create"
    /\ UNCHANGED <<inputVars, outcome, samplerLog, createLog, rngDraws, locs, i, nbVars, rbVars, ubVars>>

\* lines 360-363, past the redraws that are counted
NB_RedrawLate ==
    /\ pc = "nb_test"
    /\ NB_LoopCond(newLoc, nodeDistribArgs["boundingRegion"])
    /\ redraws >= MaxRedraws
    /\ \E b \in Bearings, f \in NormalFactors : newLoc' = NormalPoint(b, f)
    /\ UNCHANGED <<inputVars, pc, outcome, gnVars, rngDraws, locs, i, redraws, rbVars, ubVars>>

\* lines 360, 364
NB_Append ==
    /\ pc = "nb_test"
    /\ ~ NB_LoopCond(newLoc, nodeDistribArgs["boundingRegion"])
    /\ locs' = Append(locs, newLoc)
    /\ i' = i + 1
    /\ pc' = "nb_loop"
    /\ UNCHANGED <<inputVars, outcome, gnVars, rngDraws, nbVars, rbVars, ubVars>>

\* line 366, returning to line 238 or 243
NB_Return ==
    /\ pc = "nb_loop"
    /\ i >= numNodes
    /\ gLocs' = locs
    /\ locsBound' = TRUE
    /\ pc' = "create"
    /\ UNCHANGED <<inputVars, outcome, samplerLog, createLog, rngDraws, locs, i, nbVars, rbVars, ubVars>>

\* -------------------------------------------------------- _genNodesRoadBased
\* line 435: the number of candidates asked for
RB_BatchSize_Full(n, l) == n

RB_BatchSize(n, l) == n - Len(l)

\* lines 438-439
RB_Keep_Snapped(l, cand, snap, distToRoad) ==
    IF geoDistance2DLeq(cand, snap, distToRoad) THEN Append(l, snap) ELSE l

RB_Keep_Far(l, cand, snap, distToRoad) ==
    IF ~ geoDistance2DLeq(cand, snap, distToRoad) THEN Append(l, cand) ELSE l

RB_Keep_Restart(l, cand, snap, distToRoad) ==
    IF geoDistance2DLeq(cand, snap, distToRoad) THEN Append(l, cand) ELSE << >>

RB_Keep(l, cand, snap, distToRoad) ==
    IF geoDistance2DLeq(cand, snap, distToRoad) THEN Append(l, cand) ELSE l

\* lines 434-435: the loop goes on, _genNodesUniformBounded is called
RB_Round ==
    /\ pc = "rb_loop"
    /\ Len(locs) < numNodes
    /\ rounds < MaxRounds
    /\ rounds' = rounds + 1
    /\ ubCaller' = "_genNodesRoadBased"
    /\ ubNum' = RB_BatchSize(numNodes, locs)
    /\ pc' = "ub_entry"
    /\ UNCHANGED <<inputVars, outcome, gnVars, rngDraws, locs, i, nbVars,
                   newLocs, snapLocs, snapLog, snapArgLocs, accLog, failMark,
                   ubLocs, ubI, lstTriangle, lstArea, index, ubPicks, ubDraws, triLog>>

\* lines 434-435, past the rounds that are recorded
RB_RoundLate ==
    /\ pc = "rb_loop"
    /\ Len(locs) < numNodes
    /\ rounds >= MaxRounds
    /\ rounds' = MaxRounds + 1
    /\ ubCaller' = "_genNodesRoadBased"
    /\ ubNum' = RB_BatchSize(numNodes, locs)
    /\ pc' = "ub_entry"
    /\ UNCHANGED <<inputVars, outcome, gnVars, rngDraws, locs, i, nbVars,
                   newLocs, snapLocs, snapLog, snapArgLocs, accLog, failMark,
                   ubLocs, ubI, lstTriangle, lstArea, index, ubPicks, ubDraws, triLog>>

\* the call privGetSnapLocBatch receives at line 436; args are the positional
\* arguments that follow the coordinate list
SnapCall(coords, l) ==
    [ size |-> Len(coords), args |-> << dataProvider, APIkey, databaseName >>,
      accepted |-> Len(l), round |-> rounds ]

\* line 436: the provider answers, one road point per candidate
RB_Snap ==
    /\ pc = "rb_snap"
    /\ snapLog' = Log(snapLog, SnapCall(newLocs, locs))
    /\ snapArgLocs' = newLocs
    /\ \E sl \in [1..Len(newLocs) -> RoadLocs] : snapLocs' = sl
    /\ i' = 0
    /\ pc' = "rb_filter"
    /\ UNCHANGED <<inputVars, outcome, gnVars, rngDraws, locs, nbVars,
                   newLocs, rounds, accLog, failMark, ubVars>>

\* line 436 with the failure caught and the points accepted so far returned
RB_SnapFails_Swallowed ==
    /\ pc = "rb_snap"
    /\ snapLog' = Log(snapLog, SnapCall(newLocs, locs))
    /\ snapArgLocs' = newLocs
    /\ failMark' = << Len(snapLog'), rngDraws >>
    /\ gLocs' = locs
    /\ locsBound' = TRUE
    /\ pc' = "create"
    /\ UNCHANGED <<inputVars, outcome, samplerLog, createLog, rngDraws, locs, i, nbVars,
                   newLocs, snapLocs, rounds, accLog, ubVars>>

\* line 436: the provider fails, the exception leaves _genNodesRoadBased and
\* generateNodes (neither has a handler)
RB_SnapFails ==
    /\ pc = "rb_snap"
    /\ snapLog' = Log(snapLog, SnapCall(newLocs, locs))
    /\ snapArgLocs' = newLocs
    /\ failMark' = << Len(snapLog'), rngDraws >>
    /\ outcome' = "AdapterError"
    /\ pc' = "done"
    /\ UNCHANGED <<inputVars, gnVars, rngDraws, locs, i, nbVars,
                   newLocs, snapLocs, rounds, accLog, ubVars>>

\* lines 437-439, one index
RB_Check ==
    /\ pc = "rb_filter"
    /\ i < Len(snapLocs)
    /\ locs' = RB_Keep(locs, newLocs[i + 1], snapLocs[i + 1], nodeDistribArgs["distToRoad"])
    /\ accLog' = IF Len(locs') > Len(locs)
                   THEN Append(accLog, [ cand |-> newLocs[i + 1], snap |-> snapLocs[i + 1],
                                         round |-> rounds, index |-> i ])
                   ELSE accLog
    /\ i' = i + 1
    /\ UNCHANGED <<inputVars, pc, outcome, gnVars, rngDraws, nbVars,
                   newLocs, snapLocs, rounds, snapLog, snapArgLocs, failMark, ubVars>>

\* line 437: the for loop is over, back to line 434
RB_EndRound ==
    /\ pc = "rb_filter"
    /\ i >= Len(snapLocs)
    /\ pc' = "rb_loop"
    /\ UNCHANGED <<inputVars, outcome, gnVars, rngDraws, locs, i, nbVars, rbVars, ubVars>>

\* lines 434, 441, returning to line 247
RB_Return ==
    /\ pc = "rb_loop"
    /\ ~ (Len(locs) < numNodes)
    /\ gLocs' = locs
    /\ locsBound' = TRUE
    /\ pc' = "create"
    /\ UNCHANGED <<inputVars, outcome, samplerLog, createLog, rngDraws, locs, i, nbVars, rbVars, ubVars>>

\* ------------------------------------------------------------ specification
Next ==
    \/ GN_ValidateFail
    \/ GN_ValidatePass
    \/ GN_KeyError
    \/ GN_CallUniformBounded
    \/ GN_CallNormal
    \/ GN_CallNormalBounded
    \/ GN_CallRoadBased
    \/ GN_FallThrough
    \/ GN_LocsUnbound
    \/ GN_CreateNodes
    \/ UB_Triangulate
    \/ UB_Pick
    \/ UB_PickFails
    \/ UB_Draw
    \/ UB_ReturnToGenerateNodes
    \/ UB_ReturnToRoadBased
    \/ N_Draw
    \/ N_Return
    \/ NB_Draw
    \/ NB_Redraw
    \/ NB_Append
    \/ NB_Return
    \/ RB_Round
    \/ RB_Snap
    \/ RB_SnapFails
    \/ RB_Check
    \/ RB_EndRound
    \/ RB_Return

Spec == Init /\ [][Next]_vars

\* a redraw of lines 361-363 that lands inside the bounding region
NB_RedrawInside ==
    /\ NB_Redraw \/ NB_RedrawLate
    /\ ~ NB_LoopCond(newLoc', nodeDistribArgs["boundingRegion"])

\* the calls that validation lets through to _genNodesNormalBounded
InitNB ==
    /\ Init
    /\ valFlag
    /\ Dispatch(nodeDistrib, nodeDistribArgs) = "_genNodesNormalBounded"

\* such a call, its rejection loop unbounded as in the code
NextNB ==
    \/ GN_ValidatePass
    \/ GN_CallNormalBounded
    \/ NB_Draw
    \/ NB_Redraw
    \/ NB_RedrawLate
    \/ NB_Append
    \/ NB_Return
    \/ GN_CreateNodes

\* the call goes on while it can, and a draw that lands inside the region, as
\* long as one is possible, is not avoided for ever
SpecNB ==
    /\ InitNB
    /\ [][NextNB]_vars
    /\ WF_vars(NextNB)
    /\ SF_vars(NB_RedrawInside)

\* some road point lies within distToRoad of the candidate
NearRoad(loc) ==
    \E rl \in RoadLocs : geoDistance2DLeq(loc, rl, nodeDistribArgs["distToRoad"])

\* a pick of a triangle in which some draw lands near a road
UB_PickNear ==
    /\ UB_Pick
    /\ \E s \in SqrtR1Halves, r \in R2Halves :
          NearRoad(UB_NewLoc(ubNum, lstTriangle[index'], s, r)[1])

\* a draw that lands near a road
UB_DrawNear ==
    /\ UB_Draw
    /\ NearRoad(ubLocs'[Len(ubLocs')])

\* an answer of the provider that leaves some candidate of the round within distToRoad
RB_SnapSomeNear ==
    /\ RB_Snap
    /\ \E k \in 1..Len(newLocs) :
          geoDistance2DLeq(newLocs[k], snapLocs'[k], nodeDistribArgs["distToRoad"])

\* the calls that validation lets through to _genNodesRoadBased
InitRB ==
    /\ Init
    /\ valFlag
    /\ Dispatch(nodeDistrib, nodeDistribArgs) = "_genNodesRoadBased"

\* such a call, its rejection loop unbounded as in the code
NextRB ==
    \/ GN_ValidatePass
    \/ GN_CallRoadBased
    \/ UB_Triangulate
    \/ UB_Pick
    \/ UB_PickFails
    \/ UB_Draw
    \/ UB_ReturnToRoadBased
    \/ RB_Round
    \/ RB_RoundLate
    \/ RB_Snap
    \/ RB_SnapFails
    \/ RB_Check
    \/ RB_EndRound
    \/ RB_Return
    \/ GN_CreateNodes

\* the call goes on while it can; picks, draws and provider answers that lead
\* to an accepted candidate, as long as they stay possible, are not avoided
\* for ever
SpecRB ==
    /\ InitRB
    /\ [][NextRB]_vars
    /\ WF_vars(NextRB)
    /\ SF_vars(UB_PickNear)
    /\ SF_vars(UB_DrawNear)
    /\ SF_vars(RB_SnapSomeNear)

TypeOK ==
    /\ pc \in {"validate", "dispatch", "create", "done", "ub_entry", "ub_loop", "ub_draw",
               "n_loop", "nb_loop", "nb_test", "rb_loop", "rb_snap", "rb_filter"}
    /\ outcome \in {"running", "invalid", "KeyError", "UnboundLocalError", "AdapterError",
                     "ConfigurationError", "nodes"}
    /\ (pc = "done") = (outcome # "running")

\* ------------------------------------------------------------------ claims
\* what the claims call a configuration error: the failure valGenerateNodes
\* reports, or the KeyError naming the missing key
ConfigurationErrors == {"invalid", "KeyError", "ConfigurationError"}

\* the keys the claims require for each tag
RequiredKeys(tag) ==
    CASE tag = "uniformBB" -> {"boundingRegion"}
      [] tag = "normal" -> {"center", "stdDev"}
      [] tag = "normalBB" -> {"boundingRegion", "center", "stdDev"}
      [] tag = "unifRoadBasedBB" -> {"boundingRegion", "distToRoad"}
      [] OTHER -> {}

\* the sampler the claims name for each tag
ClaimedSampler(tag, args) ==
    CASE tag = "uniformBB" -> "_genNodesUniformBounded"
      [] tag = "normal" /\ "boundingRegion" \notin DOMAIN args -> "_genNodesNormal"
      [] tag = "normal" /\ "boundingRegion" \in DOMAIN args -> "_genNodesNormalBounded"
      [] tag = "normalBB" -> "_genNodesNormalBounded"
      [] tag = "unifRoadBasedBB" -> "_genNodesRoadBased"
      [] OTHER -> "none"

InSampler(name) == samplerLog = << name >>

\* C1: a sampler that returns, returns exactly as many coordinates as it was
\* asked for: the list generateNodes gets back has numNodes elements, and the
\* list _genNodesRoadBased gets back from _genNodesUniformBounded has as many
\* elements as that call asked for.
C1_BatchSize ==
    /\ locsBound => Len(gLocs) = numNodes
    /\ pc = "rb_snap" => Len(newLocs) = ubNum

C1_Witness ==
    /\ locsBound
    /\ InSampler("_genNodesRoadBased")
    /\ numNodes >= 2
    /\ rounds >= 2
    /\ Len(gLocs) = numNodes

\* C2: every point _genNodesNormalBounded has appended, and every point of the
\* list it returns, passes geoIsPointInPoly against the bounding region.
C2_InsidePolygon ==
    InSampler("_genNodesNormalBounded") =>
        /\ \A k \in 1..Len(locs) : geoIsPointInPoly(locs[k], nodeDistribArgs["boundingRegion"])
        /\ locsBound => gLocs = locs

C2_Witness ==
    /\ InSampler("_genNodesNormalBounded")
    /\ locsBound
    /\ Len(gLocs) >= 1
    /\ redraws >= 1

\* C3: every point in the list of _genNodesRoadBased was appended for a
\* candidate that lay within distToRoad of the snap result at its own index.
C3_WithinDistToRoad ==
    InSampler("_genNodesRoadBased") =>
        /\ Len(accLog) = Len(locs)
        /\ \A k \in 1..Len(accLog) :
              geoDistance2DLeq(accLog[k].cand, accLog[k].snap, nodeDistribArgs["distToRoad"])

C3_Witness ==
    /\ InSampler("_genNodesRoadBased")
    /\ locsBound
    /\ Len(gLocs) >= 2
    /\ rounds >= 2

\* C4: the list of _genNodesRoadBased holds the candidates themselves, not
\* their snap results, in the order in which they were drawn (by round, then
\* by index in the round).
C4_CandidatesInOrder ==
    InSampler("_genNodesRoadBased") =>
        /\ Len(accLog) = Len(locs)
        /\ \A k \in 1..Len(accLog) : locs[k] = accLog[k].cand
        /\ \A j, k \in 1..Len(accLog) :
              j < k => \/ accLog[j].round < accLog[k].round
                       \/ accLog[j].round = accLog[k].round /\ accLog[j].index < accLog[k].index
        /\ locsBound => gLocs = locs

C4_Witness ==
    /\ InSampler("_genNodesRoadBased")
    /\ locsBound
    /\ Len(accLog) >= 2
    /\ accLog[1].round # accLog[2].round
    /\ \E k \in 1..Len(accLog) : accLog[k].snap # accLog[k].cand

\* C5: when valGenerateNodes reports failure, no sampler is entered, nothing
\* is drawn, the polygon is not triangulated, the adapter and
\* privCreateNodesFromLocs are not called, and the call ends returning None.
C5_NoWorkWhenInvalid ==
    ~ valFlag =>
        /\ samplerLog = << >>
        /\ rngDraws = 0
        /\ triLog = 0
        /\ snapLog = << >>
        /\ createLog = << >>
        /\ pc \in {"validate", "done"}
        /\ pc = "done" => outcome = "invalid"

C5_Witness ==
    /\ ~ valFlag
    /\ pc = "done"
    /\ numNodes > 0
    /\ Dispatch(nodeDistrib, nodeDistribArgs) = "_genNodesRoadBased"

\* C6: a call with a tag that is none of the four supported ones ends in a
\* configuration error, with nothing drawn and privCreateNodesFromLocs not
\* called, also when valGenerateNodes lets the tag through.
C6_UnsupportedTagIsConfigurationError ==
    (nodeDistrib \notin SupportedDistribs /\ pc = "done") =>
        /\ outcome \in ConfigurationErrors
        /\ rngDraws = 0
        /\ createLog = << >>

\* C7: a call that passes validation (supported tag, required keys present)
\* enters exactly the sampler the tag names, once, and what that sampler
\* returned is what privCreateNodesFromLocs receives.
C7_OneSamplerPerTag ==
    (valFlag /\ nodeDistrib \in SupportedDistribs
             /\ RequiredKeys(nodeDistrib) \subseteq DOMAIN nodeDistribArgs) =>
        /\ samplerLog = IF pc \in {"validate", "dispatch"} THEN << >>
                        ELSE << ClaimedSampler(nodeDistrib, nodeDistribArgs) >>
        /\ createLog # << >> =>
              createLog = << IF InSampler("_genNodesUniformBounded") THEN ubLocs ELSE locs >>
        /\ outcome = "nodes" => createLog # << >>

C7_Witness ==
    /\ valFlag
    /\ nodeDistrib = "normal"
    /\ DOMAIN nodeDistribArgs = {"boundingRegion", "center", "stdDev"}
    /\ numNodes > 0
    /\ outcome = "nodes"
    /\ createLog = << locs >>

\* C8: when a key the tag requires is missing, no sampler is entered, nothing
\* is drawn or triangulated, the adapter is not called, and the call ends in a
\* configuration error.
C8_MissingKeyBeforeSampling ==
    (nodeDistrib \in SupportedDistribs
        /\ ~ (RequiredKeys(nodeDistrib) \subseteq DOMAIN nodeDistribArgs)) =>
        /\ samplerLog = << >>
        /\ rngDraws = 0
        /\ triLog = 0
        /\ snapLog = << >>
        /\ createLog = << >>
        /\ pc = "done" => outcome \in ConfigurationErrors

C8_Witness ==
    /\ valFlag
    /\ nodeDistrib = "normalBB"
    /\ DOMAIN nodeDistribArgs = {"center", "stdDev"}
    /\ numNodes > 0
    /\ outcome = "KeyError"

\* C9: _genNodesRoadBased calls the adapter once per round of its while loop
\* (a round that randomPick ends with its error never gets to the adapter),
\* with numNodes minus the number of points already accepted candidates: the
\* first call gets numNodes, no later call gets more than the one before.
C9_OneSnapCallPerRound ==
    InSampler("_genNodesRoadBased") =>
        /\ Len(snapLog) = IF \/ pc \in {"ub_entry", "ub_loop", "ub_draw", "rb_snap"}
                              \/ outcome = "ConfigurationError"
                            THEN rounds - 1 ELSE rounds
        /\ \A k \in 1..Len(snapLog) :
              /\ snapLog[k].round = k
              /\ snapLog[k].size = numNodes - snapLog[k].accepted
              /\ k = 1 => snapLog[k].size = numNodes
              /\ k > 1 => snapLog[k].size <= snapLog[k - 1].size

C9_Witness ==
    /\ InSampler("_genNodesRoadBased")
    /\ Len(snapLog) = 2
    /\ snapLog[1].size = 2
    /\ snapLog[2].size = 1
    /\ pc = "done"

\* C10: once the adapter has failed, the call is over with the adapter's
\* error: no further adapter call, no further draw, privCreateNodesFromLocs
\* not called, no list returned to generateNodes.
C10_AdapterFailurePropagates ==
    failMark # << >> =>
        /\ pc = "done"
        /\ outcome = "AdapterError"
        /\ Len(snapLog) = failMark[1]
        /\ rngDraws = failMark[2]
        /\ createLog = << >>
        /\ ~ locsBound

C10_Witness ==
    /\ failMark # << >>
    /\ Len(snapLog) = 2
    /\ Len(locs) >= 1
    /\ pc = "done"

\* some (bearing, offset) draw of _genNodesNormalBounded lands inside the region
InsidePossible ==
    \E b \in Bearings, f \in NormalFactors :
        geoIsPointInPoly(NormalPoint(b, f), nodeDistribArgs["boundingRegion"])

\* C11: _genNodesNormalBounded has no cap on its redraws: after a point outside
\* the polygon the only step is another draw; with fair draws, if some draw can
\* land inside, it returns (numNodes points); if none can and numNodes > 0, it
\* never returns and hands out no list.
C11_RedrawsUnbounded ==
    /\ [][(InSampler("_genNodesNormalBounded") /\ pc = "nb_test"
             /\ NB_LoopCond(newLoc, nodeDistribArgs["boundingRegion"]))
          => (pc' = "nb_test" /\ locs' = locs /\ outcome' = "running")]_vars
    /\ (InSampler("_genNodesNormalBounded") /\ InsidePossible)
          ~> (locsBound /\ Len(gLocs) = numNodes)
    /\ [](InSampler("_genNodesNormalBounded") /\ ~ InsidePossible /\ numNodes > 0
            => (~ locsBound /\ locs = << >> /\ outcome = "running" /\ createLog = << >>))

C11_Witness ==
    /\ InSampler("_genNodesNormalBounded")
    /\ InsidePossible
    /\ numNodes >= 1
    /\ redraws = MaxRedraws
    /\ locsBound
    /\ Len(gLocs) = numNodes

\* calls of _genNodesUniformBounded begun so far: one from generateNodes, one
\* per round from _genNodesRoadBased
UniformBoundedCalls == IF ubCaller = "generateNodes" THEN 1 ELSE rounds

\* C12: one call of _genNodesUniformBounded triangulates the region exactly
\* once, before its first draw, and every iteration uses those same triangle
\* and area lists; each iteration makes exactly one weighted pick followed by
\* exactly one point draw.
C12_TriangulateOncePickThenDraw ==
    pc \in {"ub_loop", "ub_draw"} =>
        /\ triLog = UniformBoundedCalls
        /\ lstTriangle = earclip(nodeDistribArgs["boundingRegion"])
        /\ lstArea = TriangleAreas(lstTriangle)
        /\ ubI <= ubNum
        /\ Len(ubLocs) = ubI
        /\ ubDraws = ubI
        /\ ubPicks = IF pc = "ub_draw" THEN ubI + 1 ELSE ubI

C12_Witness ==
    /\ pc = "ub_loop"
    /\ ubNum = 2
    /\ ubI = ubNum
    /\ ubPicks = 2
    /\ ubDraws = 2
    /\ triLog = 1

snapBatchArgs == << dataProvider, dataProviderArgs >>

\* C14: on the unifRoadBasedBB path every adapter call receives the provider
\* and the provider arguments given to generateNodes, each in the adapter
\* parameter meant for it and nothing else, and its coordinate batch is the
\* round's candidate list in the same order.
C14_AdapterReceivesProviderAndArgs ==
    InSampler("_genNodesRoadBased") =>
        /\ \A k \in 1..Len(snapLog) : snapLog[k].args = snapBatchArgs
        /\ pc \in {"rb_filter", "rb_loop"} /\ rounds >= 1 => snapArgLocs = newLocs

\* some draw of _genNodesUniformBounded in the region lands within distToRoad
\* of a road point
AcceptPossible ==
    \E k \in randomPick(TriangleAreas(earclipOf(nodeDistribArgs["boundingRegion"]))),
       s \in SqrtR1Halves, r \in R2Halves :
        NearRoad(UniformTrianglePoint(earclipOf(nodeDistribArgs["boundingRegion"])[k], s, r))

\* C15: in the loop of _genNodesRoadBased the accepted list holds between 0
\* and numNodes points and only grows at its end (no accepted point is removed
\* or replaced); the loop goes on while the count is below numNodes and
\* returns the list exactly when the count is numNodes; with numNodes = 0 it
\* returns the empty list without triangulating, drawing or calling the
\* adapter; with fair draws and fair provider answers, if a candidate within
\* distToRoad of its snap result is possible, the loop is eventually left.
C15_AcceptedCountAndExit ==
    /\ [](InSampler("_genNodesRoadBased") =>
            /\ Len(locs) <= numNodes
            /\ pc \in {"ub_entry", "ub_loop", "ub_draw", "rb_snap"} => Len(locs) < numNodes
            /\ locsBound => gLocs = locs /\ Len(locs) = numNodes
            /\ numNodes = 0 =>
                  /\ locs = << >>
                  /\ rounds = 0
                  /\ triLog = 0
                  /\ rngDraws = 0
                  /\ snapLog = << >>)
    /\ [][InSampler("_genNodesRoadBased") =>
            /\ Len(locs') >= Len(locs)
            /\ SubSeq(locs', 1, Len(locs)) = locs
            /\ pc = "rb_loop" =>
                  IF Len(locs) = numNodes
                    THEN pc' = "create" /\ locsBound' /\ gLocs' = locs
                    ELSE pc' = "ub_entry" /\ ~ locsBound']_vars
    /\ (InSampler("_genNodesRoadBased") /\ AcceptPossible) ~> pc \in {"create", "done"}

C15_Witness ==
    /\ InSampler("_genNodesRoadBased")
    /\ AcceptPossible
    /\ numNodes = MaxNodes
    /\ rounds = MaxRounds + 1
    /\ locsBound
    /\ Len(gLocs) = numNodes

====
